---- MODULE Spec2Model ----
(***************************************************************************)
(* Project Sentinel anomaly detection engine (scripts/anamoly_engine.py).  *)
(*                                                                         *)
(* The batch pipeline  prepare_data -> detect_anomalies ->                 *)
(* generate_flagged_report  is modelled as a state machine over tables     *)
(* (sequences of row records).  Strings on which the code does character   *)
(* work (substring tests, lexical sorting, numeric parsing) are sequences  *)
(* of one-character strings.  Metric values are integers (counts); the     *)
(* z-score, a real number, is carried exactly as its signed square.        *)
(***************************************************************************)
EXTENDS Integers, Sequences, FiniteSets, TLC

VARIABLES raw, data, results, report, g, pc, err

vars == <<raw, data, results, report, g, pc, err>>

(***************************************************************************)
(* Bounds of the model.                                                    *)
(***************************************************************************)
MaxRows == 3
MaxGroup == 11
MaxCombineRows == 2

(***************************************************************************)
(* Strings.                                                                *)
(***************************************************************************)
\* The characters used, in ASCII order (str comparison is by code point).
Alphabet ==
    <<" ", "0", "1", "2", "3", "4", "5", "6", "7", "8", "9",
      "A", "B", "D", "G", "H", "I", "K", "L", "M", "N", "O", "P", "R", "S", "T",
      "_",
      "a", "b", "c", "d", "e", "g", "h", "i", "k", "l", "m", "o", "p", "r",
      "t", "u", "x", "y">>

Ord(c) == CHOOSE i \in 1..Len(Alphabet) : Alphabet[i] = c

Digits == <<"0", "1", "2", "3", "4", "5", "6", "7", "8", "9">>

IsDigit(c) == \E i \in 1..10 : Digits[i] = c

DigitVal(c) == (CHOOSE i \in 1..10 : Digits[i] = c) - 1

\* Python  needle in hay  for two str values.
IsSubstring(needle, hay) ==
    \E k \in 0..(Len(hay) - Len(needle)) :
        \A j \in 1..Len(needle) : hay[k + j] = needle[j]

\* Python  s < t  for two str values.
StrLess(s, t) ==
    \E k \in 1..(Len(t)) :
        /\ k - 1 <= Len(s)
        /\ \A j \in 1..(k - 1) : s[j] = t[j]
        /\ \/ k = Len(s) + 1
           \/ (k <= Len(s) /\ Ord(s[k]) < Ord(t[k]))

\* A missing value in a text column (float NaN); it is no character string.
NaN == <<"NaN">>

S_A == <<"A">>
S_B == <<"B">>
S_x == <<"x">>
S_2025 == <<"2", "0", "2", "5">>
S_12 == <<"1", "2">>
S_abc == <<"a", "b", "c">>

Normal == <<"N", "o", "r", "m", "a", "l">>
Hot_High == <<"H", "o", "t", "_", "H", "i", "g", "h">>
Hot_Medium == <<"H", "o", "t", "_", "M", "e", "d", "i", "u", "m">>
Dark_High == <<"D", "a", "r", "k", "_", "H", "i", "g", "h">>
Dark_Medium == <<"D", "a", "r", "k", "_", "M", "e", "d", "i", "u", "m">>
Hot == <<"H", "o", "t">>
Dark == <<"D", "a", "r", "k">>

NORMAL == <<"N", "O", "R", "M", "A", "L">>
HOT_SPOT_HIGH == <<"H", "O", "T", "_", "S", "P", "O", "T", "_", "H", "I", "G", "H">>
HOT_SPOT_MEDIUM == <<"H", "O", "T", "_", "S", "P", "O", "T", "_", "M", "E", "D", "I", "U", "M">>
DARK_SPOT_HIGH == <<"D", "A", "R", "K", "_", "S", "P", "O", "T", "_", "H", "I", "G", "H">>
DARK_SPOT_MEDIUM == <<"D", "A", "R", "K", "_", "S", "P", "O", "T", "_", "M", "E", "D", "I", "U", "M">>
HIGH == <<"H", "I", "G", "H">>
MEDIUM == <<"M", "E", "D", "I", "U", "M">>
HOT == <<"H", "O", "T">>
DARK == <<"D", "A", "R", "K">>

High == <<"H", "i", "g", "h">>
Medium == <<"M", "e", "d", "i", "u", "m">>
Hot_Spot == <<"H", "o", "t", " ", "S", "p", "o", "t">>
Dark_Spot == <<"D", "a", "r", "k", " ", "S", "p", "o", "t">>

Flags == {Normal, Hot_High, Hot_Medium, Dark_High, Dark_Medium}

(***************************************************************************)
(* Tables.                                                                 *)
(***************************************************************************)
Range(s) == {s[i] : i \in 1..Len(s)}

\* The rows of table t whose index satisfies keep, in table order.
RECURSIVE SelectRows(_, _)
SelectRows(t, keepIdx) ==
    IF t = <<>> THEN <<>>
    ELSE LET n == Len(t)
             front == SelectRows(SubSeq(t, 1, n - 1), keepIdx \ {n})
         IN IF n \in keepIdx THEN Append(front, t[n]) ELSE front

\* Number of rows of t equal to r.
Count(t, r) == Cardinality({i \in 1..Len(t) : t[i] = r})

\* Row r with column c set to v (added when absent).
WithCol(r, c, v) ==
    [k \in (DOMAIN r) \cup {c} |-> IF k = c THEN v ELSE r[k]]

\* Row r restricted to the columns cols.
Project(r, cols) == [k \in cols |-> r[k]]

(***************************************************************************)
(* STEP 1: prepare_data                                                    *)
(***************************************************************************)
required_cols ==
    {"state", "district", "time_period", "enrolment_count", "update_count"}

\* Cells of a raw count column: a number, a text, or empty.
NumCell(n) == [kind |-> "num", num |-> n, text |-> <<>>]
TextCell(s) == [kind |-> "text", num |-> 0, text |-> s]
NullCell == [kind |-> "null", num |-> 0, text |-> <<>>]

\* A float of the cleaned table: a number or NaN.
Num(n) == [nan |-> FALSE, val |-> n]
NumNaN == [nan |-> TRUE, val |-> 0]

RECURSIVE ParseDigits(_)
ParseDigits(s) ==
    IF s = <<>> THEN 0
    ELSE 10 * ParseDigits(SubSeq(s, 1, Len(s) - 1)) + DigitVal(s[Len(s)])

\* pd.to_numeric(cell, errors='coerce')
to_numeric(cell) ==
    CASE cell.kind = "num" -> Num(cell.num)
      [] cell.kind = "text" ->
            IF cell.text # <<>> /\ \A i \in 1..Len(cell.text) : IsDigit(cell.text[i])
            THEN Num(ParseDigits(cell.text))
            ELSE NumNaN
      [] OTHER -> NumNaN

\* Lines 39-40: both count columns coerced.
Coerced(row) ==
    WithCol(WithCol(row, "enrolment_count", to_numeric(row["enrolment_count"])),
            "update_count", to_numeric(row["update_count"]))

\* Mutant of dropna_keep: the subset names the first count column only.
dropna_keep_enrolment_only(row) == ~row["enrolment_count"].nan

\* Line 42: dropna(subset=['enrolment_count', 'update_count'])
dropna_keep(row) ==
    /\ ~row["enrolment_count"].nan
    /\ ~row["update_count"].nan

\* Line 44: total_activity = enrolment_count + update_count, floats unwrapped.
with_total(row) ==
    LET e == row["enrolment_count"].val
        u == row["update_count"].val
    IN WithCol(WithCol(WithCol(row, "enrolment_count", e), "update_count", u),
               "total_activity", e + u)

missing_cols(df) == required_cols \ df.columns

\* The table prepare_data returns (when no column is missing).
prepare_data(df) ==
    LET coerced == [i \in 1..Len(df.rows) |-> Coerced(df.rows[i])]
        kept == SelectRows(coerced, {i \in 1..Len(coerced) : dropna_keep(coerced[i])})
    IN [i \in 1..Len(kept) |-> with_total(kept[i])]

(***************************************************************************)
(* STEP 2: calculate_zscore_flags                                          *)
(***************************************************************************)
RECURSIVE SumSeq(_)
SumSeq(s) == IF s = <<>> THEN 0 ELSE s[Len(s)] + SumSeq(SubSeq(s, 1, Len(s) - 1))

Metric(group_df, metric_column) ==
    [i \in 1..Len(group_df) |-> group_df[i][metric_column]]

\* Series.mean(): the rational num/den.
Mean(vals) == [num |-> SumSeq(vals), den |-> Len(vals)]

\* Mutant of Std: the population standard deviation (ddof = 0).
Std_population(vals) ==
    LET n == Len(vals)
        S == SumSeq(vals)
        Q == SumSeq([i \in 1..n |-> vals[i] * vals[i]])
    IN [nan |-> n <= 0, num |-> n * Q - S * S, den |-> n * n]

\* Series.std() (ddof = 1), carried as its square num/den:
\* sum((v - mean)^2) / (n - 1) = (n*sum(v^2) - sum(v)^2) / (n*(n - 1)).
\* A single value gives 0/0, which is NaN.
Std(vals) ==
    LET n == Len(vals)
        S == SumSeq(vals)
        Q == SumSeq([i \in 1..n |-> vals[i] * vals[i]])
    IN [nan |-> n - 1 <= 0, num |-> n * Q - S * S, den |-> n * (n - 1)]

\* Mutant of StdDegenerate: the zero test is missing.
StdDegenerate_nan_only(std) == std.nan

\* std == 0 or np.isnan(std)
StdDegenerate(std) == std.num = 0 \/ std.nan

\* A z-score z is carried as the rational sgn(z)*z^2 = num/den, with den > 0.
ZeroScore == [num |-> 0, den |-> 1]

\* (value - mean) / std
ZScoreOf(v, mean, std) ==
    LET d == v * mean.den - mean.num
        sq == d * d * std.den
    IN [num |-> IF d < 0 THEN 0 - sq ELSE sq,
        den |-> mean.den * mean.den * std.num]

\* z >= k and z <= -k for a positive integer k; strict forms by negation.
ZGe(z, k) == z.num >= k * k * z.den
ZLe(z, k) == z.num <= 0 - (k * k * z.den)

\* Lines 63-67: the flag column after the four .loc assignments, in order.
ZFlagOf(z) ==
    LET f0 == Normal
        f1 == IF ZGe(z, 3) THEN Hot_High ELSE f0
        f2 == IF ZGe(z, 2) /\ ~ZGe(z, 3) THEN Hot_Medium ELSE f1
        f3 == IF ZLe(z, 3) THEN Dark_High ELSE f2
        f4 == IF ZLe(z, 2) /\ ~ZLe(z, 3) THEN Dark_Medium ELSE f3
    IN f4

calculate_zscore_flags(group_df, metric_column) ==
    LET vals == Metric(group_df, metric_column)
        mean == Mean(vals)
        std == Std(vals)
        score(i) == IF StdDegenerate(std) THEN ZeroScore
                    ELSE ZScoreOf(vals[i], mean, std)
    IN [i \in 1..Len(group_df) |->
            WithCol(WithCol(group_df[i], "z_score", score(i)),
                    "z_flag", ZFlagOf(score(i)))]

(***************************************************************************)
(* STEP 3: calculate_iqr_flags                                             *)
(***************************************************************************)
\* The k-th smallest value of vals (k = 1 is the minimum).
KthSmallest(vals, k) ==
    CHOOSE v \in Range(vals) :
        /\ Cardinality({i \in 1..Len(vals) : vals[i] < v}) < k
        /\ Cardinality({i \in 1..Len(vals) : vals[i] <= v}) >= k

\* 4 * Series.quantile(q4 / 4), linear interpolation between the order
\* statistics around position (n - 1) * q4 / 4.
Quantile4(vals, q4) ==
    LET h4 == (Len(vals) - 1) * q4
        lo == h4 \div 4
        r == h4 % 4
        a == KthSmallest(vals, lo + 1)
    IN IF r = 0 THEN 4 * a
       ELSE 4 * a + r * (KthSmallest(vals, lo + 2) - a)

\* The four fences, each multiplied by 8.
Fences(vals) ==
    LET Q1 == Quantile4(vals, 1)
        Q3 == Quantile4(vals, 3)
        IQR == Q3 - Q1
    IN [lower_medium |-> 2 * Q1 - 3 * IQR,
        lower_high |-> 2 * Q1 - 6 * IQR,
        upper_medium |-> 2 * Q3 + 3 * IQR,
        upper_high |-> 2 * Q3 + 6 * IQR,
        IQR |-> IQR]

\* Lines 88-92: the flag column after the four .loc assignments, in order.
IqrFlagOf(v, f) ==
    LET x == 8 * v
        f0 == Normal
        f1 == IF x >= f.upper_high THEN Hot_High ELSE f0
        f2 == IF x >= f.upper_medium /\ x < f.upper_high THEN Hot_Medium ELSE f1
        f3 == IF x <= f.lower_high THEN Dark_High ELSE f2
        f4 == IF x <= f.lower_medium /\ x > f.lower_high THEN Dark_Medium ELSE f3
    IN f4

calculate_iqr_flags(group_df, metric_column) ==
    LET vals == Metric(group_df, metric_column)
        f == Fences(vals)
    IN [i \in 1..Len(group_df) |->
            WithCol(group_df[i], "iqr_flag", IqrFlagOf(vals[i], f))]

(***************************************************************************)
(* STEP 4: combine_flags                                                   *)
(***************************************************************************)
\* Mutant of decide: the Dark rule is tried before the Hot rule.
decide_dark_first(z, i) ==
    IF (Hot_High = z \/ Hot_High = i) /\ IsSubstring(Hot, z) /\ IsSubstring(Hot, i)
    THEN HOT_SPOT_HIGH
    ELSE IF (Dark_High = z \/ Dark_High = i) /\ IsSubstring(Dark, z) /\ IsSubstring(Dark, i)
    THEN DARK_SPOT_HIGH
    ELSE IF IsSubstring(Dark, z) \/ IsSubstring(Dark, i)
    THEN DARK_SPOT_MEDIUM
    ELSE IF IsSubstring(Hot, z) \/ IsSubstring(Hot, i)
    THEN HOT_SPOT_MEDIUM
    ELSE NORMAL

\* Mutant of decide: a High verdict needs both flags to be High.
decide_both_high(z, i) ==
    IF Hot_High = z /\ Hot_High = i
    THEN HOT_SPOT_HIGH
    ELSE IF Dark_High = z /\ Dark_High = i
    THEN DARK_SPOT_HIGH
    ELSE IF IsSubstring(Hot, z) \/ IsSubstring(Hot, i)
    THEN HOT_SPOT_MEDIUM
    ELSE IF IsSubstring(Dark, z) \/ IsSubstring(Dark, i)
    THEN DARK_SPOT_MEDIUM
    ELSE NORMAL

decide(z, i) ==
    IF (Hot_High = z \/ Hot_High = i) /\ IsSubstring(Hot, z) /\ IsSubstring(Hot, i)
    THEN HOT_SPOT_HIGH
    ELSE IF (Dark_High = z \/ Dark_High = i) /\ IsSubstring(Dark, z) /\ IsSubstring(Dark, i)
    THEN DARK_SPOT_HIGH
    ELSE IF IsSubstring(Hot, z) \/ IsSubstring(Hot, i)
    THEN HOT_SPOT_MEDIUM
    ELSE IF IsSubstring(Dark, z) \/ IsSubstring(Dark, i)
    THEN DARK_SPOT_MEDIUM
    ELSE NORMAL

risk_severity_of(x) ==
    IF IsSubstring(HIGH, x) THEN High
    ELSE IF IsSubstring(MEDIUM, x) THEN Medium
    ELSE Normal

anomaly_type_of(x) ==
    IF IsSubstring(HOT, x) THEN Hot_Spot
    ELSE IF IsSubstring(DARK, x) THEN Dark_Spot
    ELSE Normal

combine_row(row) ==
    LET final == decide(row["z_flag"], row["iqr_flag"])
    IN WithCol(WithCol(WithCol(row, "final_flag", final),
                       "risk_severity", risk_severity_of(final)),
               "anomaly_type", anomaly_type_of(final))

combine_flags(df) == [k \in 1..Len(df) |-> combine_row(df[k])]

(***************************************************************************)
(* STEP 5: detect_anomalies                                                *)
(***************************************************************************)
\* The keys df.groupby(col) iterates over: missing keys are dropped.
GroupKeys(df, groupby_column) ==
    {df[i][groupby_column] : i \in 1..Len(df)} \ {NaN}

\* One group of the groupby: the rows with that key, in table order.
GroupOf(df, groupby_column, key) ==
    SelectRows(df, {i \in 1..Len(df) : df[i][groupby_column] = key})

\* The body of the loop, lines 138-140.
score_group(group, metric) ==
    combine_flags(calculate_iqr_flags(calculate_zscore_flags(group, metric), metric))

\* groupby sorts its keys; pd.concat appends the groups in that order.
RECURSIVE ConcatGroups(_, _, _, _)
ConcatGroups(df, groupby_column, metric, keys) ==
    IF keys = {} THEN <<>>
    ELSE LET k == CHOOSE a \in keys : \A b \in keys \ {a} : StrLess(a, b)
         IN score_group(GroupOf(df, groupby_column, k), metric)
                \o ConcatGroups(df, groupby_column, metric, keys \ {k})

detect_anomalies(df, groupby_column, metric) ==
    ConcatGroups(df, groupby_column, metric, GroupKeys(df, groupby_column))

(***************************************************************************)
(* STEP 6: generate_flagged_report                                         *)
(***************************************************************************)
report_cols ==
    {"state", "district", "time_period", "enrolment_count", "update_count",
     "total_activity", "z_score", "anomaly_type", "risk_severity", "final_flag",
     "recommendation"}

\* abs(z_score)
AbsScore(z) == [num |-> IF z.num < 0 THEN 0 - z.num ELSE z.num, den |-> z.den]

\* The f-string, as its fixed text and the magnitude it formats into it.
recommendation(row) ==
    IF row["anomaly_type"] = Hot_Spot
    THEN [magnitude |-> AbsScore(row["z_score"]),
          text |-> "SD above state average - Review for abnormal spikes"]
    ELSE IF row["anomaly_type"] = Dark_Spot
    THEN [magnitude |-> AbsScore(row["z_score"]),
          text |-> "SD below state average - Check service availability"]
    ELSE [magnitude |-> ZeroScore, text |-> ""]

\* Mutant of is_flagged: the filter keeps the Hot Spot rows only.
is_flagged_hot_only(row) == row["anomaly_type"] = Hot_Spot

\* Line 151: the rows kept by the filter.
is_flagged(row) == row["final_flag"] # NORMAL

\* Row a sorts strictly before row b under (risk_severity, state, district).
SortsBefore(a, b) ==
    \/ StrLess(a["risk_severity"], b["risk_severity"])
    \/ /\ a["risk_severity"] = b["risk_severity"]
       /\ \/ StrLess(a["state"], b["state"])
          \/ /\ a["state"] = b["state"]
             /\ StrLess(a["district"], b["district"])

\* sort_values: a stable sort, rows of equal key keep their order.
sort_values(t) ==
    LET before(i, j) == SortsBefore(t[i], t[j]) \/ (~SortsBefore(t[j], t[i]) /\ i < j)
        rank(i) == 1 + Cardinality({j \in 1..Len(t) : j # i /\ before(j, i)})
    IN [k \in 1..Len(t) |-> t[CHOOSE i \in 1..Len(t) : rank(i) = k]]

generate_flagged_report(df) ==
    LET flagged == SelectRows(df, {i \in 1..Len(df) : is_flagged(df[i])})
        full == [i \in 1..Len(flagged) |->
                    WithCol(flagged[i], "recommendation", recommendation(flagged[i]))]
    IN sort_values([i \in 1..Len(full) |-> Project(full[i], report_cols)])

(***************************************************************************)
(* STEP 7: the pipeline                                                    *)
(***************************************************************************)
\* All tables of 0..n rows drawn from rows.
TablesUpTo(rows, n) == UNION {[1..k -> rows] : k \in 0..n}

ColumnSets ==
    {required_cols, required_cols \cup {"total_activity"}, required_cols \ {"district"}}

\* The (enrolment_count, update_count) cells of an input row: numbers, a
\* number spelt as text, a text that is no number, an empty cell.
CountCells ==
    {<<NumCell(10), TextCell(S_12)>>, <<NumCell(100), TextCell(S_12)>>,
     <<TextCell(S_abc), TextCell(S_12)>>, <<NumCell(10), NullCell>>}

RawRows(cols) ==
    {Project([state |-> st, district |-> S_x, time_period |-> S_2025,
              enrolment_count |-> c[1], update_count |-> c[2],
              total_activity |-> 99], cols) :
        st \in {S_A, S_B, NaN}, c \in CountCells}

Init ==
    /\ \E cols \in ColumnSets :
         \E rows \in TablesUpTo(RawRows(cols), MaxRows) :
            raw = [columns |-> cols, rows |-> rows]
    /\ data = <<>>
    /\ results = <<>>
    /\ report = <<>>
    /\ g = <<>>
    /\ pc = "start"
    /\ err = ""

\* data = prepare_data(data)
PrepareData ==
    /\ pc = "start"
    /\ missing_cols(raw) = {}
    /\ data' = prepare_data(raw)
    /\ pc' = "prepared"
    /\ UNCHANGED <<raw, results, report, g, err>>

\* raise ValueError(f"Missing required columns: {missing}")
PrepareDataFails ==
    /\ pc = "start"
    /\ missing_cols(raw) # {}
    /\ err' = "ValueError: Missing required columns"
    /\ pc' = "failed"
    /\ UNCHANGED <<raw, data, results, report, g>>

\* results = detect_anomalies(data, groupby_column='state', metric='total_activity')
DetectAnomalies ==
    /\ pc = "prepared"
    /\ GroupKeys(data, "state") # {}
    /\ results' = detect_anomalies(data, "state", "total_activity")
    /\ pc' = "detected"
    /\ UNCHANGED <<raw, data, report, g, err>>

\* pd.concat([]) raises when the groupby yields no group.
DetectAnomaliesFails ==
    /\ pc = "prepared"
    /\ GroupKeys(data, "state") = {}
    /\ err' = "ValueError: No objects to concatenate"
    /\ pc' = "failed"
    /\ UNCHANGED <<raw, data, results, report, g>>

\* report = generate_flagged_report(results)
GenerateFlaggedReport ==
    /\ pc = "detected"
    /\ report' = generate_flagged_report(results)
    /\ pc' = "reported"
    /\ UNCHANGED <<raw, data, results, g, err>>

Next ==
    \/ PrepareData
    \/ PrepareDataFails
    \/ DetectAnomalies
    \/ DetectAnomaliesFails
    \/ GenerateFlaggedReport

Spec == Init /\ [][Next]_vars

(***************************************************************************)
(* The scorers on one group, step by step (the loop body of               *)
(* detect_anomalies for a single state).                                   *)
(***************************************************************************)
GroupRow(v) ==
    [state |-> S_A, district |-> S_x, time_period |-> S_2025,
     enrolment_count |-> v, update_count |-> 0, total_activity |-> v]

\* Groups of 1..MaxGroup rows with metric values 10, 40 and 100, each
\* multiset of values once (rows in nondecreasing order).
InitGroup ==
    /\ \E n \in 1..MaxGroup :
         \E c10 \in 0..n :
            \E c40 \in 0..(n - c10) :
               g = [i \in 1..n |->
                      GroupRow(IF i <= c10 THEN 10 ELSE IF i <= c10 + c40 THEN 40 ELSE 100)]
    /\ raw = [columns |-> required_cols, rows |-> <<>>]
    /\ data = <<>>
    /\ results = <<>>
    /\ report = <<>>
    /\ pc = "group"
    /\ err = ""

\* g = calculate_zscore_flags(group, metric)
ZScoreStep ==
    /\ pc = "group"
    /\ g' = calculate_zscore_flags(g, "total_activity")
    /\ pc' = "z_done"
    /\ UNCHANGED <<raw, data, results, report, err>>

\* g = calculate_iqr_flags(g, metric)
IqrStep ==
    /\ pc = "z_done"
    /\ g' = calculate_iqr_flags(g, "total_activity")
    /\ pc' = "iqr_done"
    /\ UNCHANGED <<raw, data, results, report, err>>

\* g = combine_flags(g)
CombineStep ==
    /\ pc = "iqr_done"
    /\ g' = combine_flags(g)
    /\ pc' = "combined"
    /\ UNCHANGED <<raw, data, results, report, err>>

NextGroup == ZScoreStep \/ IqrStep \/ CombineStep

SpecGroup == InitGroup /\ [][NextGroup]_vars

(***************************************************************************)
(* combine_flags on a table carrying any two flag columns.                 *)
(***************************************************************************)
FlaggedRows ==
    [total_activity : {10, 100}, z_flag : Flags, iqr_flag : Flags]

InitCombine ==
    /\ g \in (TablesUpTo(FlaggedRows, MaxCombineRows) \ {<<>>})
    /\ raw = [columns |-> required_cols, rows |-> <<>>]
    /\ data = <<>>
    /\ results = <<>>
    /\ report = <<>>
    /\ pc = "iqr_done"
    /\ err = ""

NextCombine == CombineStep

SpecCombine == InitCombine /\ [][NextCombine]_vars

(***************************************************************************)
(* Properties.                                                             *)
(***************************************************************************)
IsHotFlag(f) == f \in {Hot_High, Hot_Medium}
IsDarkFlag(f) == f \in {Dark_High, Dark_Medium}

\* The five rules of the reconciler as the design states them, on the
\* category of each flag.
FiveRules(z, i) ==
    CASE (z = Hot_High \/ i = Hot_High) /\ IsHotFlag(z) /\ IsHotFlag(i) -> HOT_SPOT_HIGH
      [] OTHER ->
    CASE (z = Dark_High \/ i = Dark_High) /\ IsDarkFlag(z) /\ IsDarkFlag(i) -> DARK_SPOT_HIGH
      [] OTHER ->
    CASE IsHotFlag(z) \/ IsHotFlag(i) -> HOT_SPOT_MEDIUM
      [] OTHER ->
    CASE IsDarkFlag(z) \/ IsDarkFlag(i) -> DARK_SPOT_MEDIUM
      [] OTHER -> NORMAL

\* C1: combine_flags gives every row the verdict of the five-rule decision
\* procedure (first match wins) applied to its (z_flag, iqr_flag) pair, so
\* rows with the same pair get the same final_flag whatever else they hold.
C1_CombineFollowsFiveRules ==
    pc = "combined" =>
        /\ \A k \in 1..Len(g) :
              g[k]["final_flag"] = FiveRules(g[k]["z_flag"], g[k]["iqr_flag"])
        /\ \A j, k \in 1..Len(g) :
              (g[j]["z_flag"] = g[k]["z_flag"] /\ g[j]["iqr_flag"] = g[k]["iqr_flag"])
                  => g[j]["final_flag"] = g[k]["final_flag"]

\* Two rows with the same disagreeing pair and different metric values,
\* both reconciled.
C1_Witness ==
    /\ pc = "combined"
    /\ \E j, k \in 1..Len(g) :
          /\ g[j]["total_activity"] # g[k]["total_activity"]
          /\ g[j]["z_flag"] = Hot_Medium /\ g[j]["iqr_flag"] = Dark_High
          /\ g[k]["z_flag"] = Hot_Medium /\ g[k]["iqr_flag"] = Dark_High
          /\ g[j]["final_flag"] = HOT_SPOT_MEDIUM

\* C2 as stated: z_flag = Hot_Medium with iqr_flag = Hot_High reconciles to
\* HOT_SPOT_MEDIUM.
C2_DisagreementIsMedium ==
    pc = "combined" =>
        \A k \in 1..Len(g) :
            (g[k]["z_flag"] = Hot_Medium /\ g[k]["iqr_flag"] = Hot_High)
                => g[k]["final_flag"] = HOT_SPOT_MEDIUM

\* C2 amended: z_flag = Hot_Medium with iqr_flag = Hot_High reconciles to
\* HOT_SPOT_HIGH with risk_severity High: rule 1 matches, since one flag is
\* Hot_High and both are Hot.
C2_DisagreementIsHigh ==
    pc = "combined" =>
        \A k \in 1..Len(g) :
            (g[k]["z_flag"] = Hot_Medium /\ g[k]["iqr_flag"] = Hot_High)
                => /\ g[k]["final_flag"] = HOT_SPOT_HIGH
                   /\ g[k]["risk_severity"] = High

C2_Witness ==
    /\ pc = "combined"
    /\ \E k \in 1..Len(g) :
          /\ g[k]["z_flag"] = Hot_Medium
          /\ g[k]["iqr_flag"] = Hot_High
          /\ g[k]["anomaly_type"] = Hot_Spot

\* The rows of data in the same state group as results row r.
GroupSize(r) == Cardinality({i \in 1..Len(data) : data[i]["state"] = r["state"]})

\* C3: every record that is alone in its group leaves detect_anomalies with
\* z_score = 0.0 and final_flag = NORMAL.
C3_SingleRecordGroupIsNormal ==
    pc = "detected" =>
        \A k \in 1..Len(results) :
            GroupSize(results[k]) = 1
                => /\ results[k]["z_score"] = ZeroScore
                   /\ results[k]["final_flag"] = NORMAL

\* All metric values of the group are the same (a single row included).
ZeroVariance(t) ==
    \A i, j \in 1..Len(t) : t[i]["total_activity"] = t[j]["total_activity"]

\* C4: calculate_zscore_flags never divides by zero, and in a group of one
\* record or of identical metric values every row gets z_score = 0.0 and
\* z_flag = Normal.
C4_DegenerateGroupZeroScore ==
    pc = "z_done" =>
        /\ \A k \in 1..Len(g) : g[k]["z_score"].den > 0
        /\ ZeroVariance(g) =>
              \A k \in 1..Len(g) :
                  g[k]["z_score"] = ZeroScore /\ g[k]["z_flag"] = Normal

C4_Witness ==
    /\ pc = "z_done"
    /\ Len(g) >= 2
    /\ ZeroVariance(g)
    /\ g[1]["z_flag"] = Normal

\* The range-outlier rules in the stated precedence, first match wins.
FirstMatchIqrFlag(v, f) ==
    LET x == 8 * v
    IN CASE x >= f.upper_high -> Hot_High
         [] OTHER ->
       CASE f.upper_medium <= x /\ x < f.upper_high -> Hot_Medium
         [] OTHER ->
       CASE x <= f.lower_high -> Dark_High
         [] OTHER ->
       CASE f.lower_high < x /\ x <= f.lower_medium -> Dark_Medium
         [] OTHER -> Normal

\* C5: in every group, IQR = 0 included, every row's iqr_flag is the first
\* matching rule of Hot_High, Hot_Medium, Dark_High, Dark_Medium, Normal.
C5_IqrFlagFirstMatch ==
    pc = "iqr_done" =>
        \A k \in 1..Len(g) :
            g[k]["iqr_flag"] =
                FirstMatchIqrFlag(g[k]["total_activity"],
                                  Fences(Metric(g, "total_activity")))

\* A results row without the columns the scorers and the reconciler added.
AsCleaned(r) == Project(r, DOMAIN r \ {"z_score", "z_flag", "iqr_flag",
                                       "final_flag", "risk_severity", "anomaly_type"})

\* C6: the result of detect_anomalies holds each record of the cleaned
\* table exactly once: none lost, none duplicated.
C6_EveryCleanedRecordOnce ==
    pc = "detected" =>
        LET out == [k \in 1..Len(results) |-> AsCleaned(results[k])]
        IN /\ Len(out) = Len(data)
           /\ \A r \in Range(data) : Count(out, r) = Count(data, r)

\* A report row and a results row, on the columns they share.
ReportKey(r) == Project(r, report_cols \ {"recommendation"})

\* C7: the report holds exactly the reconciled records whose final_flag is
\* not NORMAL, each once, and no record whose final_flag is NORMAL.
C7_ReportIsTheFlaggedRecords ==
    pc = "reported" =>
        LET res == [k \in 1..Len(results) |-> ReportKey(results[k])]
            rep == [k \in 1..Len(report) |-> ReportKey(report[k])]
        IN /\ \A r \in Range(res) :
                 Count(rep, r) = IF r["final_flag"] = NORMAL THEN 0 ELSE Count(res, r)
           /\ Range(rep) \subseteq Range(res)

\* A report with a flagged record, from results that also hold a NORMAL one.
C7_Witness ==
    /\ pc = "reported"
    /\ Len(report) >= 1
    /\ \E k \in 1..Len(results) : results[k]["final_flag"] = NORMAL
    /\ \E k \in 1..Len(results) : results[k]["final_flag"] # NORMAL

\* The group [10, 10, 10, 10, 100] in some order.
ScenarioA(t) ==
    /\ Len(t) = 5
    /\ Cardinality({i \in 1..5 : t[i]["total_activity"] = 10}) = 4
    /\ Cardinality({i \in 1..5 : t[i]["total_activity"] = 100}) = 1

\* C8 as stated: the outlier 100 of [10, 10, 10, 10, 100] gets a Hot flag
\* from both scorers and a HOT_SPOT verdict.
C8_OutlierHotFromBothScorers ==
    (pc = "combined" /\ ScenarioA(g)) =>
        \A k \in 1..Len(g) :
            g[k]["total_activity"] = 100
                => /\ IsHotFlag(g[k]["z_flag"])
                   /\ IsHotFlag(g[k]["iqr_flag"])
                   /\ g[k]["final_flag"] \in {HOT_SPOT_HIGH, HOT_SPOT_MEDIUM}

\* C8 amended: the outlier 100 of [10, 10, 10, 10, 100] has a positive
\* z-score below 2 (72 / sqrt(1620), about 1.79), so z_flag = Normal; the
\* range-outlier scorer gives it Hot_High and the verdict is HOT_SPOT_MEDIUM.
C8_OutlierHotFromRangeScorerOnly ==
    (pc = "combined" /\ ScenarioA(g)) =>
        \A k \in 1..Len(g) :
            g[k]["total_activity"] = 100
                => /\ g[k]["z_score"].num > 0
                   /\ ~ZGe(g[k]["z_score"], 2)
                   /\ g[k]["z_flag"] = Normal
                   /\ g[k]["iqr_flag"] = Hot_High
                   /\ g[k]["final_flag"] = HOT_SPOT_MEDIUM

C8_Witness ==
    /\ pc = "combined"
    /\ ScenarioA(g)
    /\ Mean(Metric(g, "total_activity")).num = 28 * 5
    /\ g[5]["total_activity"] = 100
    /\ g[5]["anomaly_type"] = Hot_Spot

\* The count cells that are numbers or spell one, and the number they are.
NumericValue(cell) ==
    CASE cell = NumCell(10) -> 10
      [] cell = NumCell(100) -> 100
      [] cell = TextCell(S_12) -> 12
      [] OTHER -> -1

Usable(row) ==
    /\ NumericValue(row["enrolment_count"]) >= 0
    /\ NumericValue(row["update_count"]) >= 0

\* C9: prepare_data returns, in order, exactly the input records whose two
\* counts are numeric-coercible, with the counts as numbers and
\* total_activity = enrolment_count + update_count whatever the input held
\* in that column.
C9_PrepareDataKeepsUsableRows ==
    pc = "prepared" =>
        LET usable == SelectRows(raw.rows,
                          {i \in 1..Len(raw.rows) : Usable(raw.rows[i])})
        IN /\ Len(data) = Len(usable)
           /\ \A k \in 1..Len(data) :
                 /\ data[k]["state"] = usable[k]["state"]
                 /\ data[k]["district"] = usable[k]["district"]
                 /\ data[k]["time_period"] = usable[k]["time_period"]
                 /\ data[k]["enrolment_count"] = NumericValue(usable[k]["enrolment_count"])
                 /\ data[k]["update_count"] = NumericValue(usable[k]["update_count"])
                 /\ data[k]["total_activity"]
                        = data[k]["enrolment_count"] + data[k]["update_count"]

\* An input that carries its own total_activity, with one record dropped
\* and one kept.
C9_Witness ==
    /\ pc = "prepared"
    /\ "total_activity" \in raw.columns
    /\ Len(data) >= 1
    /\ Len(data) < Len(raw.rows)
    /\ data[1]["total_activity"] # raw.rows[1]["total_activity"]

\* C10: in every report row a Hot Spot lies strictly above its group mean
\* (z_score > 0) and a Dark Spot strictly below it (z_score < 0).
C10_VerdictDirectionMatchesScore ==
    pc = "reported" =>
        \A k \in 1..Len(report) :
            /\ report[k]["anomaly_type"] = Hot_Spot => report[k]["z_score"].num > 0
            /\ report[k]["anomaly_type"] = Dark_Spot => report[k]["z_score"].num < 0

====
